---- MODULE Spec2Model ----
(***************************************************************************)
(* Model of triangle/main.go: a GLFW window, a two-stage shader program,   *)
(* two vertex arrays and the render loop of main.                          *)
(*                                                                         *)
(* Floating point values are kept as integers in fixed units:              *)
(*   colours              in 1/36   (1.0 = 36, 0.5 = 18)                   *)
(*   vertex coordinates   in 1/1000 (0.3 = 300)                            *)
(*   time                 in quarter periods of sin (pi/2)                 *)
(* GL object names are the small integers the driver hands out.            *)
(***************************************************************************)
EXTENDS Integers, Sequences, FiniteSets

\* ------------------------------------------------------------------ bounds
\* most events the window system holds between two PollEvents calls
MaxPending == 2
\* largest clock reading (quarter periods) a frame can sample
MaxTime == 3
\* longest info log (bytes, terminator included) the driver reports
MaxLogLen == 3

\* --------------------------------------------------- constants of the code
GL_FALSE == 0
GL_TRUE == 1
VERTEX_SHADER == 35633
FRAGMENT_SHADER == 35632
Press == 1
Release == 0
NUL == 0
LogChar == 1
One == 36

vertexShaderSource == "vertexShaderSource"
fragmentShaderSource == "fragmentShaderSource"
brokenSource == "brokenSource"

triangle == << 0, 300, 0,  -300, -300, 0,  300, -300, 0 >>
triangleBg == << 0, 320, 0,  -320, -315, 0,  320, -315, 0 >>

KeyEscape == "KeyEscape"
KeyOther == "KeyOther"
Keys == {KeyEscape, KeyOther}

\* what the window system can queue for the window
CloseEvent == [kind |-> "close", key |-> KeyOther, action |-> Release]
KeyEvent(k, a) == [kind |-> "key", key |-> k, action |-> a]
Events == {CloseEvent} \cup {KeyEvent(k, a) : k \in Keys, a \in {Press, Release}}

VARIABLES
  pc,            \* position of main
  panicValue,    \* the value main panicked with (Nil while it runs)
  windowOpen,    \* glfw.CreateWindow returned a window
  shouldClose,   \* the window's close flag
  keyState,      \* the key states GetKey reports (as of the last PollEvents)
  pending,       \* events queued by the window system, not yet polled
  clock,         \* glfw.GetTime, in quarter periods
  glShaders,     \* names of the shader objects created
  glProgram,     \* [name, attached, linked] of the program object (name 0: none)
  glCurrent,     \* program installed by UseProgram (0: none)
  glBuffers,     \* buffer name -> floats uploaded
  glVaos,        \* vertex array name -> [vbo, size] of attribute 0
  glBoundVao,    \* vertex array bound (0: none)
  glUniform,     \* value of the uniform ourColor of the program
  vertexShader, fragmentShader, \* locals of initOpenGL
  program, vao, vao2,          \* locals of main
  timeValue, redValue, loc,    \* locals of the loop body
  frame,         \* calls issued by the current iteration of the loop, in order
  cs, csPrev     \* the last two compileShader invocations

vars == << pc, panicValue, windowOpen, shouldClose, keyState, pending, clock,
           glShaders, glProgram, glCurrent, glBuffers, glVaos, glBoundVao,
           glUniform, vertexShader, fragmentShader, program, vao, vao2,
           timeValue, redValue, loc, frame, cs, csPrev >>

winVars == << windowOpen, shouldClose, keyState, pending >>
glVars == << glShaders, glProgram, glCurrent, glBuffers, glVaos, glBoundVao, glUniform >>
localVars == << vertexShader, fragmentShader, program, vao, vao2, timeValue, redValue, loc >>
csVars == << cs, csPrev >>

\* ------------------------------------------------------------------ errors
Nil == [nil |-> TRUE, format |-> "", source |-> "", log |-> << >>]
\* fmt.Errorf(format, source, log): the message is made of exactly these parts
Errorf(format, source, log) ==
  [nil |-> FALSE, format |-> format, source |-> source, log |-> log]
\* the error a failed glfw.Init, glfw.CreateWindow or gl.Init returns
LibError(what) == [nil |-> FALSE, format |-> what, source |-> "", log |-> << >>]

\* ----------------------------------------------------------- compileShader
\* strings.Repeat("\x00", n)
Repeat(c, n) == [i \in 1..n |-> c]

\* gl.GetShaderInfoLog(shader, bufSize, nil, buf): the driver writes at most
\* bufSize bytes, the terminating NUL included, and leaves the rest of buf alone
GetShaderInfoLog(bufSize, buf) ==
  [i \in 1..Len(buf) |-> IF i <= bufSize - 1 THEN LogChar ELSE buf[i]]

\* what the driver answers to one compileShader call: the name CreateShader
\* returns, COMPILE_STATUS and INFO_LOG_LENGTH. For the name 0 (CreateShader
\* failed) both queries leave the zero-initialised Go variables untouched.
DriverAnswers(name) ==
  { [shader |-> name, status |-> st, logLength |-> n] :
       st \in {GL_FALSE, GL_TRUE}, n \in 0..MaxLogLen }
  \cup { [shader |-> 0, status |-> GL_FALSE, logLength |-> 0] }

\* mutant: the failure branch hands back the shader object with the error
compileShader_HandleOnFailure(source, shaderType, drv) ==
  LET shader == drv.shader
      status == drv.status
  IN  IF status = GL_FALSE
      THEN LET logLength == drv.logLength
               log == GetShaderInfoLog(logLength, Repeat(NUL, logLength + 1))
           IN  [handle |-> shader,
                err |-> Errorf("failed to compile %v: %v", source, log),
                logQueried |-> TRUE]
      ELSE [handle |-> shader, err |-> Nil, logQueried |-> FALSE]

\* mutant: the log buffer is allocated without the extra byte
compileShader_ShortLog(source, shaderType, drv) ==
  LET shader == drv.shader
      status == drv.status
  IN  IF status = GL_FALSE
      THEN LET logLength == drv.logLength
               log == GetShaderInfoLog(logLength, Repeat(NUL, logLength))
           IN  [handle |-> 0,
                err |-> Errorf("failed to compile %v: %v", source, log),
                logQueried |-> TRUE]
      ELSE [handle |-> shader, err |-> Nil, logQueried |-> FALSE]

compileShader(source, shaderType, drv) ==
  LET shader == drv.shader
      status == drv.status
  IN  IF status = GL_FALSE
      THEN LET logLength == drv.logLength
               log == GetShaderInfoLog(logLength, Repeat(NUL, logLength + 1))
           IN  [handle |-> 0,
                err |-> Errorf("failed to compile %v: %v", source, log),
                logQueried |-> TRUE]
      ELSE [handle |-> shader, err |-> Nil, logQueried |-> FALSE]

NoCall ==
  [called |-> FALSE, source |-> "", shaderType |-> 0, shader |-> 0,
   status |-> GL_FALSE, logLength |-> 0,
   ret |-> [handle |-> 0, err |-> Nil, logQueried |-> FALSE]]

\* the record of one invocation: its inputs, what the driver answered to the
\* queries it made, and what it returned
Invocation(source, shaderType, drv) ==
  LET ret == compileShader(source, shaderType, drv)
  IN  [called |-> TRUE, source |-> source, shaderType |-> shaderType,
       shader |-> drv.shader, status |-> drv.status,
       logLength |-> IF ret.logQueried THEN drv.logLength ELSE 0,
       ret |-> ret]

\* ----------------------------------------------------------------- makeVao
\* the next unused name of a GL name space
FreshName(used) == IF used = {} THEN 1 ELSE 1 + CHOOSE n \in used : \A m \in used : m <= n

makeVao(points, buffers, vaos) ==
  LET vbo == FreshName(DOMAIN buffers)
      newBuffers == [n \in DOMAIN buffers \cup {vbo} |->
                       IF n = vbo THEN points ELSE buffers[n]]
      v == FreshName(DOMAIN vaos)
      newVaos == [n \in DOMAIN vaos \cup {v} |->
                    IF n = v THEN [vbo |-> vbo, size |-> 3, enabled |-> TRUE]
                    ELSE vaos[n]]
  IN  [buffers |-> newBuffers, vaos |-> newVaos, bound |-> v, vao |-> v]

\* ------------------------------------------------------------------- colour
\* 36 * sin(t * pi/2)
Sin(t) == CASE t % 4 = 0 -> 0
            [] t % 4 = 1 -> One
            [] t % 4 = 2 -> 0
            [] t % 4 = 3 -> 0 - One
\* math.Sin(timeValue)/2 + 0.5
RedValue(t) == (Sin(t) \div 2) + (One \div 2)
\* the arguments of the two gl.Uniform4f calls
BgColor(c) == << (c * 2) \div 3, c \div 2, 0, One >>
FgColor(c) == << c, c, 0, One >>

\* -------------------------------------------------------------------- Init
NoProgram == [name |-> 0, attached |-> {}, linked |-> FALSE]

Init ==
  /\ pc = "start"
  /\ panicValue = Nil
  /\ windowOpen = FALSE
  /\ shouldClose = FALSE
  /\ keyState = [k \in Keys |-> Release]
  /\ pending = << >>
  /\ clock = 0
  /\ glShaders = {}
  /\ glProgram = NoProgram
  /\ glCurrent = 0
  /\ glBuffers = << >>
  /\ glVaos = << >>
  /\ glBoundVao = 0
  /\ glUniform = << 0, 0, 0, 0 >>
  /\ vertexShader = 0
  /\ fragmentShader = 0
  /\ program = 0
  /\ vao = 0
  /\ vao2 = 0
  /\ timeValue = 0
  /\ redValue = 0
  /\ loc = 0
  /\ frame = << >>
  /\ cs = NoCall
  /\ csPrev = NoCall

\* ------------------------------------------------------ main, before the loop
Panic(err) ==
  /\ pc' = "panicked"
  /\ panicValue' = err

\* main, up to the call of initGlfw; initGlfw: glfw.Init
GlfwInit ==
  /\ pc = "start"
  /\ \E ok \in BOOLEAN :
       IF ok THEN pc' = "createWindow" /\ UNCHANGED panicValue
             ELSE Panic(LibError("glfw.Init"))
  /\ UNCHANGED << winVars, clock, glVars, localVars, frame, csVars >>

\* initGlfw: glfw.CreateWindow, MakeContextCurrent
CreateWindow ==
  /\ pc = "createWindow"
  /\ \E ok \in BOOLEAN :
       IF ok THEN pc' = "glInit" /\ windowOpen' = TRUE /\ UNCHANGED panicValue
             ELSE Panic(LibError("glfw.CreateWindow")) /\ UNCHANGED windowOpen
  /\ UNCHANGED << shouldClose, keyState, pending, clock, glVars, localVars,
                  frame, csVars >>

\* initOpenGL: gl.Init
GlInit ==
  /\ pc = "glInit"
  /\ \E ok \in BOOLEAN :
       IF ok THEN pc' = "compileVertex" /\ UNCHANGED panicValue
             ELSE Panic(LibError("gl.Init"))
  /\ UNCHANGED << winVars, clock, glVars, localVars, frame, csVars >>

\* initOpenGL: vertexShader, err := compileShader(vertexShaderSource, VERTEX_SHADER)
CompileVertex ==
  /\ pc = "compileVertex"
  /\ \E drv \in DriverAnswers(FreshName(glShaders)) :
       LET inv == Invocation(vertexShaderSource, VERTEX_SHADER, drv)
       IN  /\ cs' = inv
           /\ csPrev' = cs
           /\ glShaders' = glShaders \cup ({drv.shader} \ {0})
           /\ IF inv.ret.err # Nil
              THEN Panic(inv.ret.err) /\ UNCHANGED vertexShader
              ELSE /\ vertexShader' = inv.ret.handle
                   /\ pc' = "compileFragment"
                   /\ UNCHANGED panicValue
  /\ UNCHANGED << winVars, clock, glProgram, glCurrent, glBuffers, glVaos,
                  glBoundVao, glUniform, fragmentShader, program, vao, vao2,
                  timeValue, redValue, loc, frame >>

\* mutant: the error of the fragment stage is dropped and initOpenGL goes on
CompileFragment_IgnoresError ==
  /\ pc = "compileFragment"
  /\ \E drv \in DriverAnswers(FreshName(glShaders)) :
       LET inv == Invocation(fragmentShaderSource, FRAGMENT_SHADER, drv)
       IN  /\ cs' = inv
           /\ csPrev' = cs
           /\ glShaders' = glShaders \cup ({drv.shader} \ {0})
           /\ fragmentShader' = inv.ret.handle
           /\ pc' = "link"
           /\ UNCHANGED panicValue
  /\ UNCHANGED << winVars, clock, glProgram, glCurrent, glBuffers, glVaos,
                  glBoundVao, glUniform, vertexShader, program, vao, vao2,
                  timeValue, redValue, loc, frame >>

\* initOpenGL: fragmentShader, err := compileShader(fragmentShaderSource, FRAGMENT_SHADER)
CompileFragment ==
  /\ pc = "compileFragment"
  /\ \E drv \in DriverAnswers(FreshName(glShaders)) :
       LET inv == Invocation(fragmentShaderSource, FRAGMENT_SHADER, drv)
       IN  /\ cs' = inv
           /\ csPrev' = cs
           /\ glShaders' = glShaders \cup ({drv.shader} \ {0})
           /\ IF inv.ret.err # Nil
              THEN Panic(inv.ret.err) /\ UNCHANGED fragmentShader
              ELSE /\ fragmentShader' = inv.ret.handle
                   /\ pc' = "link"
                   /\ UNCHANGED panicValue
  /\ UNCHANGED << winVars, clock, glProgram, glCurrent, glBuffers, glVaos,
                  glBoundVao, glUniform, vertexShader, program, vao, vao2,
                  timeValue, redValue, loc, frame >>

\* initOpenGL: CreateProgram, AttachShader twice, LinkProgram, return prog.
\* The link status is the driver's; the code does not query it.
LinkProgram ==
  /\ pc = "link"
  /\ \E linked \in BOOLEAN :
       LET prog == FreshName(glShaders)
       IN  /\ glProgram' = [name |-> prog,
                            attached |-> {vertexShader, fragmentShader},
                            linked |-> linked]
           /\ program' = prog
  /\ pc' = "makeVao"
  /\ UNCHANGED << panicValue, winVars, clock, glShaders, glCurrent, glBuffers,
                  glVaos, glBoundVao, glUniform, vertexShader, fragmentShader,
                  vao, vao2, timeValue, redValue, loc, frame, csVars >>

\* main: vao := makeVao(triangle)
MakeVaoFg ==
  /\ pc = "makeVao"
  /\ LET r == makeVao(triangle, glBuffers, glVaos)
     IN  /\ glBuffers' = r.buffers
         /\ glVaos' = r.vaos
         /\ glBoundVao' = r.bound
         /\ vao' = r.vao
  /\ pc' = "makeVao2"
  /\ UNCHANGED << panicValue, winVars, clock, glShaders, glProgram, glCurrent,
                  glUniform, vertexShader, fragmentShader, program, vao2,
                  timeValue, redValue, loc, frame, csVars >>

\* main: vao2 := makeVao(triangleBg); gl.ClearColor
MakeVaoBg ==
  /\ pc = "makeVao2"
  /\ LET r == makeVao(triangleBg, glBuffers, glVaos)
     IN  /\ glBuffers' = r.buffers
         /\ glVaos' = r.vaos
         /\ glBoundVao' = r.bound
         /\ vao2' = r.vao
  /\ pc' = "loop"
  /\ UNCHANGED << panicValue, winVars, clock, glShaders, glProgram, glCurrent,
                  glUniform, vertexShader, fragmentShader, program, vao,
                  timeValue, redValue, loc, frame, csVars >>

\* ------------------------------------------------------------ the render loop
\* one call of the loop body, with the GL context it is issued in
Call(op, count) ==
  [op |-> op, count |-> count, vao |-> glBoundVao, prog |-> glCurrent,
   color |-> glUniform, sample |-> timeValue]

\* the steps of the loop body that only move on leave these alone
loopRest == << panicValue, windowOpen, clock, glShaders, glProgram, glBuffers,
               glVaos, vertexShader, fragmentShader, program, vao, vao2,
               csVars >>

\* mutant: the loop condition does not look at the close flag
LoopEnter_IgnoresFlag ==
  /\ pc = "loop"
  /\ pc' = "getKey"
  /\ frame' = << >>
  /\ UNCHANGED << loopRest, shouldClose, keyState, pending, glCurrent,
                  glBoundVao, glUniform, timeValue, redValue, loc >>

\* for !window.ShouldClose(): enter the body
LoopEnter ==
  /\ pc = "loop"
  /\ ~shouldClose
  /\ pc' = "getKey"
  /\ frame' = << >>
  /\ UNCHANGED << loopRest, shouldClose, keyState, pending, glCurrent,
                  glBoundVao, glUniform, timeValue, redValue, loc >>

\* for !window.ShouldClose(): leave the loop
LoopExit ==
  /\ pc = "loop"
  /\ shouldClose
  /\ pc' = "terminate"
  /\ UNCHANGED << loopRest, shouldClose, keyState, pending, glCurrent,
                  glBoundVao, glUniform, timeValue, redValue, loc, frame >>

\* mutant: the check asks for another key than escape
CheckEscape_OtherKey ==
  /\ pc = "getKey"
  /\ IF keyState[KeyOther] = Press
     THEN /\ shouldClose' = TRUE
          /\ frame' = frame \o << Call("GetKey", 0), Call("SetShouldClose", 0) >>
     ELSE /\ UNCHANGED shouldClose
          /\ frame' = Append(frame, Call("GetKey", 0))
  /\ pc' = "clear"
  /\ UNCHANGED << loopRest, keyState, pending, glCurrent, glBoundVao,
                  glUniform, timeValue, redValue, loc >>

\* if window.GetKey(glfw.KeyEscape) == 1 { window.SetShouldClose(true) }
CheckEscape ==
  /\ pc = "getKey"
  /\ IF keyState[KeyEscape] = Press
     THEN /\ shouldClose' = TRUE
          /\ frame' = frame \o << Call("GetKey", 0), Call("SetShouldClose", 0) >>
     ELSE /\ UNCHANGED shouldClose
          /\ frame' = Append(frame, Call("GetKey", 0))
  /\ pc' = "clear"
  /\ UNCHANGED << loopRest, keyState, pending, glCurrent, glBoundVao,
                  glUniform, timeValue, redValue, loc >>

\* gl.Clear(gl.COLOR_BUFFER_BIT | gl.DEPTH_BUFFER_BIT)
Clear ==
  /\ pc = "clear"
  /\ frame' = Append(frame, Call("Clear", 0))
  /\ pc' = "getTime"
  /\ UNCHANGED << loopRest, shouldClose, keyState, pending, glCurrent,
                  glBoundVao, glUniform, timeValue, redValue, loc >>

\* timeValue := glfw.GetTime(); redValue := math.Sin(timeValue)/2 + 0.5
\* The clock only moves forward.
GetTime ==
  /\ pc = "getTime"
  /\ \E t \in clock..MaxTime :
       /\ clock' = t
       /\ timeValue' = t
       /\ redValue' = RedValue(t)
  /\ frame' = Append(frame, [Call("GetTime", 0) EXCEPT !.sample = timeValue'])
  /\ pc' = "useProgram"
  /\ UNCHANGED << panicValue, windowOpen, glShaders, glProgram, glBuffers,
                  glVaos, vertexShader, fragmentShader, program, vao, vao2,
                  csVars, shouldClose, keyState, pending, glCurrent,
                  glBoundVao, glUniform, loc >>

\* gl.UseProgram(program): a program that is not linked is not installed
UseProgram ==
  /\ pc = "useProgram"
  /\ glCurrent' = IF glProgram.name = program /\ glProgram.linked
                  THEN program ELSE glCurrent
  /\ frame' = Append(frame, Call("UseProgram", 0))
  /\ pc' = "bindBg"
  /\ UNCHANGED << loopRest, shouldClose, keyState, pending, glBoundVao,
                  glUniform, timeValue, redValue, loc >>

\* gl.BindVertexArray(vao2)
BindBg ==
  /\ pc = "bindBg"
  /\ glBoundVao' = IF vao2 \in DOMAIN glVaos THEN vao2 ELSE glBoundVao
  /\ frame' = Append(frame, Call("BindVertexArray", 0))
  /\ pc' = "locBg"
  /\ UNCHANGED << loopRest, shouldClose, keyState, pending, glCurrent,
                  glUniform, timeValue, redValue, loc >>

\* gl.GetUniformLocation(program, "ourColor"): -1 unless the program is linked
GetUniformLocation(prog) ==
  IF glProgram.name = prog /\ glProgram.linked THEN 0 ELSE 0 - 1

\* gl.Uniform4f(location, v): sets the uniform of the installed program;
\* the location -1 is ignored, and so is the call with no program installed
Uniform4f(location, v) ==
  IF location # 0 - 1 /\ glCurrent # 0 THEN v ELSE glUniform

\* vertexColorLocation2 := gl.GetUniformLocation(program, gl.Str("ourColor\x00"))
LocBg ==
  /\ pc = "locBg"
  /\ loc' = GetUniformLocation(program)
  /\ frame' = Append(frame, Call("GetUniformLocation", 0))
  /\ pc' = "uniformBg"
  /\ UNCHANGED << loopRest, shouldClose, keyState, pending, glCurrent,
                  glBoundVao, glUniform, timeValue, redValue >>

\* gl.Uniform4f(vertexColorLocation2, redValue/1.5, redValue/2, 0.0, 1.0)
UniformBg ==
  /\ pc = "uniformBg"
  /\ glUniform' = Uniform4f(loc, BgColor(redValue))
  /\ frame' = Append(frame, Call("Uniform4f", 0))
  /\ pc' = "drawBg"
  /\ UNCHANGED << loopRest, shouldClose, keyState, pending, glCurrent,
                  glBoundVao, timeValue, redValue, loc >>

\* gl.DrawArrays(gl.TRIANGLES, 0, int32(len(triangleBg)/3))
DrawBg ==
  /\ pc = "drawBg"
  /\ frame' = Append(frame, Call("DrawArrays", Len(triangleBg) \div 3))
  /\ pc' = "locFg"
  /\ UNCHANGED << loopRest, shouldClose, keyState, pending, glCurrent,
                  glBoundVao, glUniform, timeValue, redValue, loc >>

\* vertexColorLocation := gl.GetUniformLocation(program, gl.Str("ourColor\x00"))
LocFg ==
  /\ pc = "locFg"
  /\ loc' = GetUniformLocation(program)
  /\ frame' = Append(frame, Call("GetUniformLocation", 0))
  /\ pc' = "uniformFg"
  /\ UNCHANGED << loopRest, shouldClose, keyState, pending, glCurrent,
                  glBoundVao, glUniform, timeValue, redValue >>

\* gl.Uniform4f(vertexColorLocation, redValue, redValue, 0.0, 1.0)
UniformFg ==
  /\ pc = "uniformFg"
  /\ glUniform' = Uniform4f(loc, FgColor(redValue))
  /\ frame' = Append(frame, Call("Uniform4f", 0))
  /\ pc' = "bindFg"
  /\ UNCHANGED << loopRest, shouldClose, keyState, pending, glCurrent,
                  glBoundVao, timeValue, redValue, loc >>

\* gl.BindVertexArray(vao)
BindFg ==
  /\ pc = "bindFg"
  /\ glBoundVao' = IF vao \in DOMAIN glVaos THEN vao ELSE glBoundVao
  /\ frame' = Append(frame, Call("BindVertexArray", 0))
  /\ pc' = "drawFg"
  /\ UNCHANGED << loopRest, shouldClose, keyState, pending, glCurrent,
                  glUniform, timeValue, redValue, loc >>

\* mutant: the foreground draw call is left out
DrawFg_Skipped ==
  /\ pc = "drawFg"
  /\ pc' = "pollEvents"
  /\ UNCHANGED << loopRest, shouldClose, keyState, pending, glCurrent,
                  glBoundVao, glUniform, timeValue, redValue, loc, frame >>

\* gl.DrawArrays(gl.TRIANGLES, 0, int32(len(triangle)/3))
DrawFg ==
  /\ pc = "drawFg"
  /\ frame' = Append(frame, Call("DrawArrays", Len(triangle) \div 3))
  /\ pc' = "pollEvents"
  /\ UNCHANGED << loopRest, shouldClose, keyState, pending, glCurrent,
                  glBoundVao, glUniform, timeValue, redValue, loc >>

\* what processing the queued events, oldest first, does to the window:
\* a close request raises the close flag, a key event sets that key's state
RECURSIVE ProcessEvents(_, _)
ProcessEvents(q, w) ==
  IF q = << >> THEN w
  ELSE LET e == Head(q)
           w1 == IF e.kind = "close"
                 THEN [w EXCEPT !.shouldClose = TRUE]
                 ELSE [w EXCEPT !.keyState[e.key] = e.action]
       IN  ProcessEvents(Tail(q), w1)

\* mutant: close requests are dropped by the poll
PollEvents_DropsClose ==
  /\ pc = "pollEvents"
  /\ LET w == ProcessEvents(pending, [shouldClose |-> shouldClose,
                                      keyState |-> keyState])
     IN  /\ shouldClose' = shouldClose
         /\ keyState' = w.keyState
  /\ pending' = << >>
  /\ frame' = Append(frame, Call("PollEvents", 0))
  /\ pc' = "swapBuffers"
  /\ UNCHANGED << loopRest, glCurrent, glBoundVao, glUniform, timeValue,
                  redValue, loc >>

\* mutant: the frame is presented before the events are polled
PollEvents_AfterSwap ==
  /\ pc = "pollEvents"
  /\ LET w == ProcessEvents(pending, [shouldClose |-> shouldClose,
                                      keyState |-> keyState])
     IN  /\ shouldClose' = w.shouldClose
         /\ keyState' = w.keyState
  /\ pending' = << >>
  /\ frame' = frame \o << Call("SwapBuffers", 0), Call("PollEvents", 0) >>
  /\ pc' = "loop"
  /\ UNCHANGED << loopRest, glCurrent, glBoundVao, glUniform, timeValue,
                  redValue, loc >>

\* glfw.PollEvents()
PollEvents ==
  /\ pc = "pollEvents"
  /\ LET w == ProcessEvents(pending, [shouldClose |-> shouldClose,
                                      keyState |-> keyState])
     IN  /\ shouldClose' = w.shouldClose
         /\ keyState' = w.keyState
  /\ pending' = << >>
  /\ frame' = Append(frame, Call("PollEvents", 0))
  /\ pc' = "swapBuffers"
  /\ UNCHANGED << loopRest, glCurrent, glBoundVao, glUniform, timeValue,
                  redValue, loc >>

\* window.SwapBuffers()
SwapBuffers ==
  /\ pc = "swapBuffers"
  /\ frame' = Append(frame, Call("SwapBuffers", 0))
  /\ pc' = "loop"
  /\ UNCHANGED << loopRest, shouldClose, keyState, pending, glCurrent,
                  glBoundVao, glUniform, timeValue, redValue, loc >>

\* defer glfw.Terminate(), run as main returns
Terminate ==
  /\ pc = "terminate"
  /\ windowOpen' = FALSE
  /\ pending' = << >>
  /\ pc' = "done"
  /\ UNCHANGED << panicValue, shouldClose, keyState, clock, glVars, localVars,
                  frame, csVars >>

\* the window system queues an event for the open window: the user presses
\* or releases a key, or asks the window to close
WindowEvent ==
  /\ windowOpen
  /\ pc \notin {"done", "panicked"}
  /\ Len(pending) < MaxPending
  /\ \E e \in Events : pending' = Append(pending, e)
  /\ UNCHANGED << pc, panicValue, windowOpen, shouldClose, keyState, clock,
                  glVars, localVars, frame, csVars >>

\* ------------------------------------------------------------ specifications
MainStep ==
  \/ GlfwInit \/ CreateWindow \/ GlInit
  \/ CompileVertex \/ CompileFragment \/ LinkProgram
  \/ MakeVaoFg \/ MakeVaoBg
  \/ LoopEnter \/ LoopExit \/ CheckEscape \/ Clear \/ GetTime \/ UseProgram
  \/ BindBg \/ LocBg \/ UniformBg \/ DrawBg
  \/ LocFg \/ UniformFg \/ BindFg \/ DrawFg
  \/ PollEvents \/ SwapBuffers \/ Terminate

Next == MainStep \/ WindowEvent

Spec == Init /\ [][Next]_vars

\* main is the one thread of the process and every call returns
LiveSpec == Spec /\ WF_vars(MainStep)

\* compileShader on its own: any source with either stage, any driver answer
Sources == {vertexShaderSource, fragmentShaderSource, brokenSource}
ShaderTypes == {VERTEX_SHADER, FRAGMENT_SHADER}

CompileCall ==
  /\ \E source \in Sources, shaderType \in ShaderTypes, name \in 1..2 :
       \E drv \in DriverAnswers(name) :
          /\ cs' = Invocation(source, shaderType, drv)
          /\ csPrev' = cs
  /\ UNCHANGED << pc, panicValue, winVars, clock, glVars, localVars, frame >>

NextCompile == CompileCall

SpecCompile == Init /\ [][NextCompile]_vars

\* =================================================================== claims
\* ------------------------------------------------------- reading the frame
Count(f, op) == Cardinality({i \in DOMAIN f : f[i].op = op})
\* draw calls among the first i calls of the frame
DrawsUpTo(f, i) == Cardinality({j \in 1..i : f[j].op = "DrawArrays"})
\* the iteration that issued `frame` has run to its end
FrameComplete == pc = "loop" /\ frame # << >>
InBody == pc \in {"getKey", "clear", "getTime", "useProgram", "bindBg", "locBg",
                  "uniformBg", "drawBg", "locFg", "uniformFg", "bindFg",
                  "drawFg", "pollEvents", "swapBuffers"}
InLoop == InBody \/ pc = "loop"
CloseQueued == \E i \in DOMAIN pending : pending[i] = CloseEvent
\* the state of the escape key once the queued events are delivered
EscAfterPoll ==
  ProcessEvents(pending, [shouldClose |-> shouldClose,
                          keyState |-> keyState]).keyState[KeyEscape]
Failed(c) == c.called /\ ~c.ret.err.nil

\* C1: every iteration of the render loop that begins issues exactly 2 draw
\* calls before its buffer swap, whatever time is sampled and whether or not
\* close is requested during the iteration: never more than 2 while the body
\* runs, exactly 2 when SwapBuffers is reached and when the iteration ends,
\* and SwapBuffers is the last call of the iteration.
C1_TwoDrawsPerFrame ==
  /\ InBody => Count(frame, "DrawArrays") <= 2
  /\ pc = "swapBuffers" => Count(frame, "DrawArrays") = 2
  /\ FrameComplete =>
       /\ Count(frame, "DrawArrays") = 2
       /\ Count(frame, "SwapBuffers") = 1
       /\ frame[Len(frame)].op = "SwapBuffers"

C1_Witness ==
  /\ FrameComplete
  /\ Count(frame, "DrawArrays") = 2
  /\ Count(frame, "SetShouldClose") = 1
  /\ timeValue = 3

\* C2 (as claimed): an escape press is turned into the close flag by the very
\* next event poll after the press, and no other key sets the flag.
C2_Original ==
  [][ /\ (pc = "pollEvents" /\ pc' = "swapBuffers" /\ EscAfterPoll = Press)
           => shouldClose'
      /\ (~shouldClose /\ shouldClose')
           => \/ (pc = "pollEvents" /\ CloseQueued)
              \/ keyState[KeyEscape] = Press
              \/ EscAfterPoll = Press ]_vars

\* C2 (amended): the event poll that delivers an escape press only records the
\* key as pressed; it raises the close flag for a queued close request alone.
\* The flag is raised for the key by the GetKey check at the start of the next
\* iteration, whenever that check finds the escape key pressed, and that
\* iteration then goes on to render. Nothing else raises the flag: no other key.
C2_EscapeSetsFlagAtKeyCheck ==
  [][ /\ (pc = "pollEvents" /\ pc' = "swapBuffers")
           => /\ keyState'[KeyEscape] = EscAfterPoll
              /\ shouldClose' = (shouldClose \/ CloseQueued)
      /\ (pc = "getKey" /\ pc' # pc)
           => /\ pc' = "clear"
              /\ shouldClose' = (shouldClose \/ keyState[KeyEscape] = Press)
      /\ (~shouldClose /\ shouldClose')
           => \/ (pc = "pollEvents" /\ CloseQueued)
              \/ (pc = "getKey" /\ keyState[KeyEscape] = Press) ]_vars

C2_Witness ==
  /\ pc = "clear"
  /\ shouldClose
  /\ frame[Len(frame)].op = "SetShouldClose"
  /\ keyState[KeyOther] = Press

\* C3: a draw call is issued only with a bound vertex array whose points were
\* uploaded by makeVao, and a uniform lookup or draw call uses the program only
\* after the program was linked successfully.
ProgramLinked == glProgram.name # 0 /\ glProgram.name = program /\ glProgram.linked
Uploaded(v) ==
  /\ v \in DOMAIN glVaos
  /\ glVaos[v].vbo \in DOMAIN glBuffers
  /\ glBuffers[glVaos[v].vbo] \in {triangle, triangleBg}

C3_UploadedAndLinkedBeforeUse ==
  \A i \in DOMAIN frame :
     /\ frame[i].op = "DrawArrays" => Uploaded(frame[i].vao) /\ ProgramLinked
     /\ frame[i].op = "GetUniformLocation" => ProgramLinked

\* C4: when compileShader fails for either stage the process aborts at once:
\* no later stage is compiled, no program is created or linked, no vertex
\* buffer or vertex array is created, and the loop is never entered.
C4_CompileFailureAborts ==
  Failed(cs) =>
     /\ pc = "panicked"
     /\ panicValue = cs.ret.err
     /\ cs.shaderType = VERTEX_SHADER => ~csPrev.called /\ Cardinality(glShaders) <= 1
     /\ cs.shaderType = FRAGMENT_SHADER => csPrev.shaderType = VERTEX_SHADER
     /\ glProgram = NoProgram
     /\ program = 0
     /\ glBuffers = << >>
     /\ glVaos = << >>
     /\ frame = << >>
     /\ glCurrent = 0

C4_Witness ==
  /\ pc = "panicked"
  /\ Failed(cs)
  /\ cs.shaderType = FRAGMENT_SHADER
  /\ vertexShader # 0

\* C5: compileShader has exactly two outcomes, decided by the compile status:
\* on success the shader handle, a nil error and no diagnostic text; otherwise
\* the handle 0 and an error. The info log is queried in the second case only.
C5_TwoOutcomes ==
  cs.called =>
     /\ cs.status # GL_FALSE =>
          /\ cs.ret.handle = cs.shader
          /\ cs.ret.handle # 0
          /\ cs.ret.err = Nil
          /\ ~cs.ret.logQueried
     /\ cs.status = GL_FALSE =>
          /\ cs.ret.handle = 0
          /\ ~cs.ret.err.nil
          /\ cs.ret.logQueried

C5_Witness ==
  /\ cs.called /\ cs.status = GL_FALSE /\ cs.source = brokenSource
  /\ cs.shader # 0
  /\ csPrev.called /\ csPrev.status = GL_TRUE

\* C6 (as claimed): the error of a failed compileShader carries the stage that
\* was passed in, so two failures that yield the same error were given the
\* same stage; and its diagnostic text is not empty.
C6_Original ==
  /\ (Failed(cs) /\ Failed(csPrev) /\ cs.ret.err = csPrev.ret.err)
        => cs.shaderType = csPrev.shaderType
  /\ Failed(cs) => Len(cs.ret.err.log) >= 1

\* C6 (amended): the error of a failed compileShader carries the source text
\* that was passed in, not the stage: the same source failing with the same
\* log length yields the same error for either stage. With it comes the log
\* buffer, a text of logLength + 1 bytes, so never empty, that ends in NUL.
C6_ErrorCarriesSourceAndLog ==
  /\ Failed(cs) =>
       /\ cs.ret.err.source = cs.source
       /\ cs.ret.err.format = "failed to compile %v: %v"
       /\ Len(cs.ret.err.log) = cs.logLength + 1
       /\ Len(cs.ret.err.log) >= 1
       /\ cs.ret.err.log[Len(cs.ret.err.log)] = NUL
  /\ (Failed(cs) /\ Failed(csPrev) /\ cs.source = csPrev.source
        /\ cs.logLength = csPrev.logLength)
        => cs.ret.err = csPrev.ret.err

C6_Witness ==
  /\ Failed(cs) /\ Failed(csPrev)
  /\ cs.ret.err = csPrev.ret.err
  /\ cs.shaderType = VERTEX_SHADER /\ csPrev.shaderType = FRAGMENT_SHADER
  /\ cs.logLength = 3

\* C7: the loop is Running (close flag clear) or Closing (close flag set). The
\* flag goes from clear to set only on a queued close request or a pressed
\* escape key; once set it is never cleared, no further iteration begins, and
\* the only step main takes at the loop condition is to leave the loop.
C7_ClosingIsTerminal ==
  [][ /\ shouldClose => shouldClose'
      /\ shouldClose => ~(pc = "loop" /\ pc' = "getKey")
      /\ (shouldClose /\ pc = "loop" /\ pc' # pc) => pc' = "terminate"
      /\ (~shouldClose /\ pc = "loop" /\ pc' # pc) => pc' = "getKey"
      /\ (~shouldClose /\ shouldClose')
           => \/ (pc = "pollEvents" /\ CloseQueued)
              \/ (pc = "getKey" /\ keyState[KeyEscape] = Press) ]_vars

C7_Witness ==
  /\ pc = "terminate"
  /\ shouldClose
  /\ keyState[KeyEscape] = Release
  /\ Count(frame, "SetShouldClose") = 0

\* C8: once close is requested while main is in the loop (the close flag is
\* set or a close request is queued, or the escape key is pressed and stays
\* pressed) the loop exits and main reaches its end; the loop is left from
\* its condition alone, with the close flag set.
C8_CloseLeadsToExit ==
  /\ (InLoop /\ (shouldClose \/ CloseQueued)) ~> (pc = "done")
  /\ []((InLoop /\ [](EscAfterPoll = Press)) => <>(pc = "done"))
  /\ [][(pc' = "terminate" /\ pc # "terminate") => (pc = "loop" /\ shouldClose)]_vars

C8_Witness ==
  /\ pc = "done"
  /\ shouldClose
  /\ keyState[KeyEscape] = Press
  /\ Count(frame, "SetShouldClose") = 1

\* C9 (as claimed): in every frame the input processing, that is the event
\* poll and the escape check with its close request, comes after both draw
\* calls and before the buffer swap.
InputOps == {"PollEvents", "GetKey", "SetShouldClose"}
C9_Original ==
  FrameComplete =>
     \A i \in DOMAIN frame :
        frame[i].op \in InputOps =>
           /\ DrawsUpTo(frame, i) = 2
           /\ \E j \in DOMAIN frame : j > i /\ frame[j].op = "SwapBuffers"

\* C9 (amended): in every frame the escape check comes first: GetKey is the
\* first call of the iteration and SetShouldClose, if the key is pressed, the
\* second, before the clear and before both draw calls. Only the event poll
\* comes after both draw calls, immediately before the buffer swap that ends
\* the iteration. A close request raised by the escape key is therefore made
\* before that frame's drawing, and the frame is still drawn and presented.
C9_KeyCheckFirstPollLast ==
  FrameComplete =>
     /\ frame[1].op = "GetKey"
     /\ \A i \in DOMAIN frame :
          /\ frame[i].op = "SetShouldClose" =>
               i = 2 /\ DrawsUpTo(frame, i) = 0 /\ Count(frame, "DrawArrays") = 2
          /\ frame[i].op = "GetKey" => i = 1
          /\ frame[i].op = "Clear" => i \in {2, 3} /\ DrawsUpTo(frame, i) = 0
          /\ frame[i].op = "PollEvents" =>
               i = Len(frame) - 1 /\ DrawsUpTo(frame, i) = 2
          /\ frame[i].op = "SwapBuffers" => i = Len(frame)
     /\ Count(frame, "PollEvents") = 1
     /\ Count(frame, "GetKey") = 1

C9_Witness ==
  /\ FrameComplete
  /\ frame[2].op = "SetShouldClose"
  /\ frame[Len(frame) - 1].op = "PollEvents"

\* C10: in every frame the background triangle is drawn first and the
\* foreground triangle second, each over 3 vertices; at each draw call the
\* bound vertex array and the value of the uniform ourColor are those of the
\* triangle drawn, the colour computed from the one time sample of the frame.
DrawIs(d, v, points, color) ==
  /\ d.count = 3
  /\ d.vao = v
  /\ Uploaded(v) /\ glBuffers[glVaos[v].vbo] = points
  /\ Len(points) = 3 * glVaos[v].size
  /\ d.color = color

C10_DrawOrderAndState ==
  /\ Count(frame, "GetTime") <= 1
  /\ \A i \in DOMAIN frame :
       frame[i].op = "DrawArrays" =>
          /\ DrawsUpTo(frame, i) = 1 =>
               DrawIs(frame[i], vao2, triangleBg, BgColor(RedValue(frame[i].sample)))
          /\ DrawsUpTo(frame, i) = 2 =>
               DrawIs(frame[i], vao, triangle, FgColor(RedValue(frame[i].sample)))
          /\ \E j \in 1..(i - 1) :
               frame[j].op = "GetTime" /\ frame[j].sample = frame[i].sample

\* the same with a program that did link: what C10 says holds of those runs
C10_WhenLinked == ProgramLinked => C10_DrawOrderAndState

====
